---- MODULE Spec2Model ----
(***************************************************************************)
(* Model of the mesh-messenger skeleton: the Node (Start/Stop), the TCP    *)
(* transport (Listen, its accept loop, Close, handleConn), the process     *)
(* entry point main, and the message envelope constructor.                 *)
(*                                                                         *)
(* Three specifications share the variables:                               *)
(*   Spec      the Node used as a library: any caller may call Start and   *)
(*             Stop, in any order, while the goroutines run;               *)
(*   MainSpec  the process of func main: NewNode, Start, wait for a        *)
(*             signal, Stop, exit;                                         *)
(*   MsgSpec   callers of NewTextMessage.                                  *)
(***************************************************************************)
EXTENDS Integers, Sequences, FiniteSets, TLC

\* ------------------------------------------------------------- bounds
MaxStarts == 2
MaxStops == 2
MaxConns == 2
MaxMsgs == 2
MaxClock == 1
MaxReqs == 1
MaxCallbacks == 2

\* The maximum payload size of a message: configured nowhere in the code.
MaxPayloadSize == 2

\* -------------------------------------------------------- value spaces
\* the zero value of the listener field (a nil interface)
NilListener == 0

\* One listening goroutine per call of Start; goroutine g owns the listener
\* object g that its net.Listen call returns.
Goroutines == 1..MaxStarts
Conns == 1..MaxConns
PeerIds == {"p1", "p2"}
Contents == {<<>>, <<104>>, <<104, 105>>, <<255, 0, 128>>}

\* message.go: the MessageType constants
TextMessage == "text"
StatusMessage == "status"
DiscoveryMessage == "discovery"

VARIABLES
    mainPc,      \* position of func main ("lib": the Node is driven by callers)
    exitCode,    \* exit status of the process: "running", "0", "1", "signal"
    out,         \* what func main has printed, as tags
    nodeExists,  \* NewNode has returned a Node
    peers,       \* Node.peers: peer id -> Peer
    tListener,   \* tcpTransport.listener: the last value written to the field
    stored,      \* the listeners written to tcpTransport.listener so far
    lnState,     \* per listener object: "none", "open", "closed"
    portExt,     \* the port is held by another process
    lPc,         \* per listening goroutine: position in tcpTransport.Listen
    lErr,        \* per listening goroutine: what Listen returned
    lastAccept,  \* the outcome of the latest failed Accept: "Closed" on a closed
                 \* listener, "Error" on an open one; "none" before
    connState,   \* per connection: "unused", "pending" (in the backlog), "open",
                 \* "closed", "dropped"
    connRemote,  \* per connection: the remote peer
    connFailed,  \* per connection: the remote end has reset it
    hPc,         \* per connection: position of its handleConn goroutine
    startCount,  \* number of calls of Node.Start
    startErr,    \* what the latest call of Node.Start returned
    stopCount,   \* number of calls of Node.Stop
    stopErr,     \* what the latest call of Node.Stop returned
    msgs,        \* the messages NewTextMessage returned, in order
    clock,       \* time.Now()
    lastJSON,    \* the latest result of Message.ToJSON: the message encoded
                 \* (its index in msgs, 0 before the first call) and the document
    env,         \* process.env of the backend server: "" for an unset variable
    srvPc,       \* where the backend server is in its start-up
    srvExit,     \* exit code of the server process, "running" while it runs
    firebaseApp, \* firebase-config's firebaseApp
    firebaseConfigured, \* server.js' firebaseConfigured
    appCreated,  \* express() has been called
    routes,      \* the paths registered on the app
    reqs,        \* the HTTP requests: input, position in the middleware
                 \* chain, req.user, the responses written, the emails sent
    user,        \* AuthProvider's user state
    loading,     \* AuthProvider's loading state
    initialized, \* AuthProvider's initialized state
    fbUser,      \* the current user of the Firebase SDK
    events,      \* auth-state notifications the SDK has yet to deliver
    cbs,         \* the invocations of the onAuthStateChange callback
    rdPc,        \* checkRedirectResult: "pending" or "done"
    siPc,        \* a signIn call: "idle" or "awaiting"
    soPc,        \* a signOut call: "idle" or "awaiting"
    location,    \* the path the router is at
    screen,      \* what the mounted ProtectedRoute rendered last
    activeRef,   \* useNavigate's activeRef of the mounted ProtectedRoute
    signedOut    \* a signOut has resolved and no sign-in followed it

mainVars == <<mainPc, exitCode, out, nodeExists>>
nodeVars == <<peers, tListener, stored, lnState, lPc, lErr, lastAccept,
              startCount, startErr, stopCount, stopErr>>
netVars == <<portExt, connState, connRemote, connFailed, hPc>>
msgVars == <<msgs, clock, lastJSON>>
webVars == <<env, srvPc, srvExit, firebaseApp, firebaseConfigured, appCreated,
             routes, reqs>>
authVars == <<user, loading, initialized, fbUser, events, cbs, rdPc, siPc,
              soPc, location, screen, activeRef, signedOut>>
vars == <<mainVars, nodeVars, netVars, msgVars, webVars, authVars>>

\* ------------------------------------------------------------ helpers
EmptyPeers == [id \in {} |-> [ID |-> "", conn |-> 0, lastSeen |-> 0]]

\* The process is alive: its goroutines take steps.
Running == mainPc \in {"lib", "start", "print", "wait", "stop", "stopped"}

\* tcpTransport.listener is written by the listening goroutine and read by
\* Close and by the accept loops with no synchronisation. A reader that has
\* written the field itself sees a written value; any other reader may
\* still see nil or any value written so far.
ListenerReads(reader) ==
    IF reader \in stored THEN stored ELSE {NilListener} \cup stored

\* net.Listen("tcp", addr) succeeds iff nobody holds the port.
PortFree == ~portExt /\ \A h \in Goroutines : lnState[h] # "open"

\* ------------------------------------------------------ initial states
\* NewTransport: a transport with its address and a nil listener.
NewTransport ==
    /\ tListener = NilListener
    /\ stored = {}
    /\ lnState = [g \in Goroutines |-> "none"]
    /\ lPc = [g \in Goroutines |-> "idle"]
    /\ lErr = [g \in Goroutines |-> "none"]
    /\ lastAccept = "none"

\* NewNode: a node with its transport and an empty peers map.
NewNode ==
    /\ NewTransport
    /\ peers = EmptyPeers
    /\ startCount = 0
    /\ startErr = "none"
    /\ stopCount = 0
    /\ stopErr = "none"

NetInit ==
    /\ portExt \in BOOLEAN
    /\ connState = [c \in Conns |-> "unused"]
    /\ connRemote = [c \in Conns |-> "p1"]
    /\ connFailed = [c \in Conns |-> FALSE]
    /\ hPc = [c \in Conns |-> "none"]

MsgInit ==
    /\ msgs = <<>>
    /\ clock = 0
    /\ lastJSON = [of |-> 0, doc |-> <<>>]

\* ------------------------------------------------- the backend server
RequiredEnvVars == {"RESEND_API_KEY", "FROM_EMAIL", "TO_EMAIL"}
FirebaseEnvVars ==
    {"FIREBASE_PROJECT_ID", "FIREBASE_PRIVATE_KEY", "FIREBASE_CLIENT_EMAIL"}

\* The value a variable has when the .env file sets it.
EnvValue(name) ==
    IF name = "TO_EMAIL" THEN "admin@example.com"
    ELSE IF name = "FROM_EMAIL" THEN "noreply@example.com"
    ELSE "value"

Envs ==
    { [n \in RequiredEnvVars \cup FirebaseEnvVars |->
          IF n \in present THEN EnvValue(n) ELSE ""] :
      present \in SUBSET (RequiredEnvVars \cup FirebaseEnvVars) }

Reqs == 1..MaxReqs

AuthRoutes ==
    {"/auth/user", "/auth/refresh", "/auth/status", "/auth/update-profile",
     "/auth/logout"}
BasicRoutes == {"/", "/send-report", "/api/get-tts-token"}

\* Authorization headers as their parts between spaces (String.split(' '));
\* <<>> is a request without the header.
Headers ==
    {<<>>, <<"Bearer">>, <<"Bearer", "idtoken-alice">>,
     <<"Bearer", "idtoken-expired">>, <<"Bearer", "", "idtoken-alice">>,
     <<"idtoken-alice">>}

\* body.email, body.report and body.ecgImages of a /send-report request:
\* "" is a missing (or empty) member; "text" is a report that is not the
\* analysis object analysisToHtml reads; "numbers" is a list of images
\* that are not strings.
BodyEmails == {"", "patient@example.com"}
BodyReports == {"", "analysis", "text"}
BodyEcgImages == {"", "dataUrls", "numbers"}

NoRequest ==
    [pc |-> "none", route |-> "", header |-> <<>>, email |-> "",
     report |-> "", ecgImages |-> "", profile |-> FALSE, user |-> "undefined",
     nextCalls |-> 0, ran |-> FALSE, resp |-> <<>>, emails |-> <<>>,
     sendResult |-> ""]

\* No front end: the browser application has not been loaded.
NoApp ==
    /\ user = "null"
    /\ loading = TRUE
    /\ initialized = FALSE
    /\ fbUser = "null"
    /\ events = <<>>
    /\ cbs = <<>>
    /\ rdPc = "off"
    /\ siPc = "idle"
    /\ soPc = "idle"
    /\ location = ""
    /\ screen = "none"
    /\ activeRef = FALSE
    /\ signedOut = FALSE

\* No backend server process: the node is a separate program.
NoServer ==
    /\ env = <<>>
    /\ srvPc = "off"
    /\ srvExit = "running"
    /\ firebaseApp = "undefined"
    /\ firebaseConfigured = TRUE
    /\ appCreated = FALSE
    /\ routes = {}
    /\ reqs = <<>>

\* The server process before its first statement, with environment e.
ServerBoot(e) ==
    /\ env = e
    /\ srvPc = "load"
    /\ srvExit = "running"
    /\ firebaseApp = "undefined"
    /\ firebaseConfigured = TRUE
    /\ appCreated = FALSE
    /\ routes = {}
    /\ reqs = [r \in Reqs |-> NoRequest]

\* The state after NewNode has returned a node to a caller.
Init ==
    /\ mainPc = "lib"
    /\ exitCode = "running"
    /\ out = <<>>
    /\ nodeExists = TRUE
    /\ NewNode
    /\ NetInit
    /\ MsgInit
    /\ NoServer
    /\ NoApp

\* The state when func main begins: no node yet; the fields a node is
\* created with are those of NewNode.
MainInit ==
    /\ mainPc = "new"
    /\ exitCode = "running"
    /\ out = <<>>
    /\ nodeExists = FALSE
    /\ NewNode
    /\ NetInit
    /\ MsgInit
    /\ NoServer
    /\ NoApp

\* ------------------------------------------------------------ the Node
\* Node.Start: go n.transport.Listen(); return nil. No check of an earlier
\* Start: every call launches a listening goroutine.
Start ==
    /\ \E g \in Goroutines :
          /\ lPc[g] = "idle"
          /\ \A h \in Goroutines : h < g => lPc[h] # "idle"
          /\ lPc' = [lPc EXCEPT ![g] = "bind"]
    /\ startCount' = startCount + 1
    /\ startErr' = "nil"
    /\ UNCHANGED <<peers, tListener, stored, lnState, lErr, lastAccept,
                   stopCount, stopErr>>
    /\ UNCHANGED netVars

\* net.Listener.Close on listener L: the first call closes it, a later call
\* fails with "use of closed network connection".
ListenerCloseErr(L) ==
    IF lnState[L] = "open" THEN "nil" ELSE "use of closed network connection"

\* What tcpTransport.Close returns, having read L from the listener field.
CloseErr(L) ==
    IF L # NilListener THEN ListenerCloseErr(L) ELSE "nil"

\* The connections still in the backlog of a listener are dropped when the
\* listener is closed. Only the listener that holds the port has a backlog.
DropBacklog ==
    [c \in Conns |-> IF connState[c] = "pending" THEN "dropped" ELSE connState[c]]

\* tcpTransport.Close: if t.listener != nil { return t.listener.Close() }.
Close(L) ==
    /\ lnState' = IF L # NilListener /\ lnState[L] = "open"
                  THEN [lnState EXCEPT ![L] = "closed"] ELSE lnState
    /\ connState' = IF L # NilListener /\ lnState[L] = "open"
                    THEN DropBacklog ELSE connState

\* Node.Stop: return n.transport.Close(). Nothing else is stopped.
Stop ==
    \E L \in ListenerReads(NilListener) :
        /\ Close(L)
        /\ stopCount' = stopCount + 1
        /\ stopErr' = CloseErr(L)
        /\ UNCHANGED <<peers, tListener, stored, lPc, lErr, lastAccept,
                       startCount, startErr>>
        /\ UNCHANGED <<portExt, connRemote, connFailed, hPc>>

\* ------------------------------------------------- tcpTransport.Listen
\* ln, err := net.Listen("tcp", t.addr); if err != nil { return err }
ListenBind(g) ==
    /\ Running
    /\ lPc[g] = "bind"
    /\ IF PortFree
       THEN /\ lnState' = [lnState EXCEPT ![g] = "open"]
            /\ lPc' = [lPc EXCEPT ![g] = "store"]
            /\ lErr' = lErr
       ELSE /\ lPc' = [lPc EXCEPT ![g] = "returned"]
            /\ lErr' = [lErr EXCEPT ![g] = "BindError"]
            /\ lnState' = lnState
    /\ UNCHANGED <<peers, tListener, stored, lastAccept, startCount, startErr,
                   stopCount, stopErr>>
    /\ UNCHANGED <<mainVars, netVars, msgVars, webVars, authVars>>

\* t.listener = ln
ListenStore(g) ==
    /\ Running
    /\ lPc[g] = "store"
    /\ tListener' = g
    /\ stored' = stored \cup {g}
    /\ lPc' = [lPc EXCEPT ![g] = "loop"]
    /\ UNCHANGED <<peers, lnState, lErr, lastAccept, startCount, startErr,
                   stopCount, stopErr>>
    /\ UNCHANGED <<mainVars, netVars, msgVars, webVars, authVars>>

\* The connection at the head of the backlog of the open listener.
IsBacklogHead(c) ==
    /\ connState[c] = "pending"
    /\ \A d \in Conns : connState[d] = "pending" => c <= d

\* conn, err := t.listener.Accept() returns a connection:
\* go t.handleConn(conn), and loop.
AcceptConn(g, L) ==
    /\ lnState[L] = "open"
    /\ \E c \in Conns :
          /\ IsBacklogHead(c)
          /\ connState' = [connState EXCEPT ![c] = "open"]
          /\ hPc' = [hPc EXCEPT ![c] = "run"]
    /\ lastAccept' = lastAccept
    /\ lPc' = lPc

\* A bug the accept loop could have: leaving the loop on a failed Accept.
AcceptError_returns(g, L) ==
    /\ \/ lnState[L] = "closed" /\ lastAccept' = "Closed"
       \/ lnState[L] = "open" /\ lastAccept' = "Error"
    /\ lPc' = [lPc EXCEPT ![g] = "returned"]
    /\ UNCHANGED <<connState, hPc>>

\* conn, err := t.listener.Accept() fails, because the listener is closed
\* or because the call failed on the open listener: print the error and
\* continue.
AcceptError(g, L) ==
    /\ \/ lnState[L] = "closed" /\ lastAccept' = "Closed"
       \/ lnState[L] = "open" /\ lastAccept' = "Error"
    /\ lPc' = lPc
    /\ UNCHANGED <<connState, hPc>>

\* One iteration of the accept loop of Listen. The Accept call is made on
\* the listener read from the field; it blocks while that listener is open
\* and has nothing to deliver.
Accept(g) ==
    /\ Running
    /\ lPc[g] = "loop"
    /\ \E L \in ListenerReads(g) : AcceptConn(g, L) \/ AcceptError(g, L)
    /\ UNCHANGED <<peers, tListener, stored, lnState, lErr, startCount, startErr,
                   stopCount, stopErr>>
    /\ UNCHANGED <<mainVars, portExt, connRemote, connFailed, msgVars, webVars, authVars>>

\* A peer record as NewPeer builds it: the connection and time.Now(); the ID
\* field is left at its zero value.
NewPeer(c) == [ID |-> "", conn |-> c, lastSeen |-> clock]

\* What handling a connection would look like if it stored a Peer for the
\* connection in the node's map before its deferred Close ran.
handleConn_registers(c) ==
    /\ Running
    /\ hPc[c] = "run"
    /\ peers' = [id \in DOMAIN peers \cup {connRemote[c]} |->
                    IF id = connRemote[c] THEN NewPeer(c) ELSE peers[id]]
    /\ connState' = [connState EXCEPT ![c] = "closed"]
    /\ hPc' = [hPc EXCEPT ![c] = "done"]
    /\ UNCHANGED <<tListener, stored, lnState, lPc, lErr, lastAccept,
                   startCount, startErr, stopCount, stopErr>>
    /\ UNCHANGED <<mainVars, portExt, connRemote, connFailed, msgVars, webVars, authVars>>

\* tcpTransport.handleConn: defer conn.Close(); print the remote address;
\* return. No Peer is created, the peers map is not touched.
handleConn(c) ==
    /\ Running
    /\ hPc[c] = "run"
    /\ connState' = [connState EXCEPT ![c] = "closed"]
    /\ hPc' = [hPc EXCEPT ![c] = "done"]
    /\ UNCHANGED nodeVars
    /\ UNCHANGED <<mainVars, portExt, connRemote, connFailed, msgVars, webVars, authVars>>

\* ---------------------------------------------------- the environment
\* A remote peer connects to the listening port: the connection waits in
\* the backlog of the open listener.
PeerConnect(c, p) ==
    /\ Running
    /\ connState[c] = "unused"
    /\ \A d \in Conns : d < c => connState[d] # "unused"
    /\ \E L \in Goroutines : lnState[L] = "open"
    /\ connState' = [connState EXCEPT ![c] = "pending"]
    /\ connRemote' = [connRemote EXCEPT ![c] = p]
    /\ UNCHANGED <<portExt, connFailed, hPc>>
    /\ UNCHANGED <<mainVars, nodeVars, msgVars, webVars, authVars>>

\* The remote end resets an accepted connection: the connection has failed,
\* and stays open on this side until it is closed here.
PeerReset(c) ==
    /\ Running
    /\ connState[c] = "open"
    /\ ~connFailed[c]
    /\ connFailed' = [connFailed EXCEPT ![c] = TRUE]
    /\ UNCHANGED <<portExt, connState, connRemote, hPc>>
    /\ UNCHANGED <<mainVars, nodeVars, msgVars, webVars, authVars>>

\* The steps of the goroutines and of the environment.
Background ==
    \/ \E g \in Goroutines : ListenBind(g)
    \/ \E g \in Goroutines : ListenStore(g)
    \/ \E g \in Goroutines : Accept(g)
    \/ \E c \in Conns : handleConn(c)
    \/ \E c \in Conns, p \in PeerIds : PeerConnect(c, p)
    \/ \E c \in Conns : PeerReset(c)

\* ------------------------------------------- the Node used as a library
CallStart ==
    /\ mainPc = "lib"
    /\ startCount < MaxStarts
    /\ Start
    /\ UNCHANGED <<mainVars, msgVars, webVars, authVars>>

CallStop ==
    /\ mainPc = "lib"
    /\ stopCount < MaxStops
    /\ Stop
    /\ UNCHANGED <<mainVars, msgVars, webVars, authVars>>

Next ==
    \/ CallStart
    \/ CallStop
    \/ Background

Spec == Init /\ [][Next]_vars

\* ----------------------------------------------------------- func main
\* The sockets of a process are released when it ends.
ReleaseSockets ==
    /\ lnState' = [g \in Goroutines |->
                      IF lnState[g] = "open" THEN "closed" ELSE lnState[g]]
    /\ connState' = [c \in Conns |->
                        IF connState[c] = "pending" THEN "dropped"
                        ELSE IF connState[c] = "open" THEN "closed"
                        ELSE connState[c]]

\* n, err := node.NewNode(); on an error (rand.Read failed) print it and
\* os.Exit(1).
MainNewNode ==
    /\ mainPc = "new"
    /\ \/ /\ nodeExists' = TRUE
          /\ out' = Append(out, "Starting mesh-messenger node...")
          /\ mainPc' = "start"
          /\ exitCode' = exitCode
       \/ /\ nodeExists' = FALSE
          /\ out' = out \o <<"Starting mesh-messenger node...", "Error creating node">>
          /\ mainPc' = "exited"
          /\ exitCode' = "1"
    /\ UNCHANGED <<nodeVars, netVars, msgVars, webVars, authVars>>

\* if err := n.Start(); err != nil { print it; os.Exit(1) }
MainStart ==
    /\ mainPc = "start"
    /\ Start
    /\ IF startErr' # "nil"
       THEN /\ out' = Append(out, "Error starting node")
            /\ mainPc' = "exited"
            /\ exitCode' = "1"
       ELSE /\ out' = out
            /\ mainPc' = "print"
            /\ exitCode' = exitCode
    /\ UNCHANGED <<nodeExists, msgVars, webVars, authVars>>

\* A fault main could have: Stop called without waiting for a signal.
MainPrint_skipsWait ==
    /\ mainPc = "print"
    /\ out' = out \o <<"Node started with ID", "Waiting for peers...">>
    /\ mainPc' = "stop"
    /\ UNCHANGED <<exitCode, nodeExists, nodeVars, netVars, msgVars, webVars, authVars>>

\* Print the node id and "Waiting for peers...", register for SIGINT and
\* SIGTERM, and block on the signal channel.
MainPrint ==
    /\ mainPc = "print"
    /\ out' = out \o <<"Node started with ID", "Waiting for peers...">>
    /\ mainPc' = "wait"
    /\ UNCHANGED <<exitCode, nodeExists, nodeVars, netVars, msgVars, webVars, authVars>>

\* SIGINT or SIGTERM arrives. Once main waits on the channel it goes on to
\* shut down; before signal.Notify the signal ends the process.
Signal ==
    \/ /\ mainPc = "wait"
       /\ out' = Append(out, "Shutting down node...")
       /\ mainPc' = "stop"
       /\ UNCHANGED <<exitCode, nodeExists, nodeVars, netVars, msgVars, webVars, authVars>>
    \/ /\ mainPc \in {"new", "start", "print"}
       /\ mainPc' = "killed"
       /\ exitCode' = "signal"
       /\ ReleaseSockets
       /\ UNCHANGED <<out, nodeExists, peers, tListener, stored, lPc, lErr,
                      lastAccept, startCount, startErr, stopCount, stopErr,
                      portExt, connRemote, connFailed, hPc, msgVars, webVars, authVars>>

\* if err := n.Stop(); err != nil { print it }; print "Node stopped."
MainStop ==
    /\ mainPc = "stop"
    /\ Stop
    /\ out' = IF stopErr' # "nil"
              THEN out \o <<"Error stopping node", "Node stopped.">>
              ELSE Append(out, "Node stopped.")
    /\ mainPc' = "stopped"
    /\ UNCHANGED <<exitCode, nodeExists, msgVars, webVars, authVars>>

\* main returns: the process ends with status 0.
MainExit ==
    /\ mainPc = "stopped"
    /\ mainPc' = "exited"
    /\ exitCode' = "0"
    /\ ReleaseSockets
    /\ UNCHANGED <<out, nodeExists, peers, tListener, stored, lPc, lErr,
                   lastAccept, startCount, startErr, stopCount, stopErr,
                   portExt, connRemote, connFailed, hPc, msgVars, webVars, authVars>>

MainNext ==
    \/ MainNewNode
    \/ MainStart
    \/ MainPrint
    \/ Signal
    \/ MainStop
    \/ MainExit
    \/ Background

MainSpec == MainInit /\ [][MainNext]_vars

\* -------------------------------------------------------- the messages
\* A string that is not valid UTF-8 (the one byte 0xFF), and what
\* encoding/json writes for it: the replacement character U+FFFD.
InvalidUtf8 == "\\xff"
ReplacementChar == "\\ufffd"

\* The senders and recipients the callers pass: peer ids, and ids that are
\* not text.
Addressing ==
    {<<"p1", "p2">>, <<"p2", "p1">>, <<InvalidUtf8, "p1">>, <<"p1", InvalidUtf8>>}

\* time.Now(): the wall clock instant, with a monotonic clock reading.
Now == [wall |-> clock, mono |-> TRUE]

\* NewTextMessage(from, to, content): the ID is the fixed string "temp-id",
\* the payload is the bytes of content, whatever their number; the error
\* returned is always nil.
NewTextMessage(from, to, content) ==
    [ID |-> "temp-id", Type |-> TextMessage, From |-> from, To |-> to,
     Timestamp |-> Now, Payload |-> content]

\* encoding/json on a string: invalid UTF-8 is replaced by U+FFFD.
JSONString(str) == IF str = InvalidUtf8 THEN ReplacementChar ELSE str

\* encoding/json on a time.Time: the RFC 3339 text with nanoseconds, which
\* carries the wall clock instant and not the monotonic reading.
JSONTime(t) == [rfc3339nano |-> t.wall]

\* the padding character "=" of base64, next to the sextets 0..63
Pad == 64

\* encoding/json on a []byte: standard base64 with padding. Here as the
\* sequence of sextets.
RECURSIVE Base64(_)
Base64(bytes) ==
    IF Len(bytes) = 0 THEN <<>>
    ELSE IF Len(bytes) = 1
    THEN <<bytes[1] \div 4, (bytes[1] % 4) * 16, Pad, Pad>>
    ELSE IF Len(bytes) = 2
    THEN <<bytes[1] \div 4,
           (bytes[1] % 4) * 16 + bytes[2] \div 16,
           (bytes[2] % 16) * 4,
           Pad>>
    ELSE <<bytes[1] \div 4,
           (bytes[1] % 4) * 16 + bytes[2] \div 16,
           (bytes[2] % 16) * 4 + bytes[3] \div 64,
           bytes[3] % 64>> \o Base64(SubSeq(bytes, 4, Len(bytes)))

\* A fault Message.ToJSON could have: the payload left out of the document.
ToJSON_withoutPayload(m) ==
    [id |-> JSONString(m.ID), type |-> JSONString(m.Type),
     from |-> JSONString(m.From), to |-> JSONString(m.To),
     timestamp |-> JSONTime(m.Timestamp), payload |-> <<>>]

\* Message.ToJSON: json.Marshal(m), one member per field under its json tag.
ToJSON(m) ==
    [id |-> JSONString(m.ID), type |-> JSONString(m.Type),
     from |-> JSONString(m.From), to |-> JSONString(m.To),
     timestamp |-> JSONTime(m.Timestamp), payload |-> Base64(m.Payload)]

\* The inverse of base64: the bytes of a sequence of sextets.
RECURSIVE Base64Decode(_)
Base64Decode(sx) ==
    IF Len(sx) < 4 THEN <<>>
    ELSE IF sx[3] = Pad
    THEN <<sx[1] * 4 + sx[2] \div 16>>
    ELSE IF sx[4] = Pad
    THEN <<sx[1] * 4 + sx[2] \div 16, (sx[2] % 16) * 16 + sx[3] \div 4>>
    ELSE <<sx[1] * 4 + sx[2] \div 16,
           (sx[2] % 16) * 16 + sx[3] \div 4,
           (sx[3] % 4) * 64 + sx[4]>> \o Base64Decode(SubSeq(sx, 5, Len(sx)))

\* Decoding a document into a Message, member by member (json.Unmarshal):
\* the time parsed from its text has no monotonic reading.
Decode(doc) ==
    [ID |-> doc.id, Type |-> doc.type, From |-> doc.from, To |-> doc.to,
     Timestamp |-> [wall |-> doc.timestamp.rfc3339nano, mono |-> FALSE],
     Payload |-> Base64Decode(doc.payload)]

CallNewTextMessage(from, to, content) ==
    /\ Len(msgs) < MaxMsgs
    /\ msgs' = Append(msgs, NewTextMessage(from, to, content))
    /\ UNCHANGED <<clock, lastJSON, mainVars, nodeVars, netVars, webVars, authVars>>

\* A caller encodes one of the messages.
CallToJSON(i) ==
    /\ lastJSON' = [of |-> i, doc |-> ToJSON(msgs[i])]
    /\ lastJSON' # lastJSON
    /\ UNCHANGED <<msgs, clock, mainVars, nodeVars, netVars, webVars, authVars>>

\* Time passes.
Tick ==
    /\ clock < MaxClock
    /\ clock' = clock + 1
    /\ UNCHANGED <<msgs, lastJSON, mainVars, nodeVars, netVars, webVars, authVars>>

MsgNext ==
    \/ \E a \in Addressing, content \in Contents :
          CallNewTextMessage(a[1], a[2], content)
    \/ \E i \in DOMAIN msgs : CallToJSON(i)
    \/ Tick

MsgSpec == Init /\ [][MsgNext]_vars

\* ------------------------------------------- the backend server, running
WebInit ==
    /\ mainPc = "lib"
    /\ exitCode = "running"
    /\ out = <<>>
    /\ nodeExists = FALSE
    /\ NewNode
    /\ NetInit
    /\ portExt = FALSE
    /\ MsgInit
    /\ \E e \in Envs : ServerBoot(e)
    /\ NoApp

\* firebase-config, loaded by require('./auth-routes'): initializeApp when
\* the three credentials are present, otherwise the error is caught and
\* firebaseApp is null.
InitializeFirebase ==
    IF \A n \in FirebaseEnvVars : env[n] # "" THEN "app" ELSE "null"

\* The require() calls at the top of server.js. firebase-config ends with
\* const db = admin.firestore(), outside its try block: without a default
\* app that call throws, the exception leaves the module uncaught and the
\* process ends with code 1.
LoadModules ==
    /\ srvPc = "load"
    /\ firebaseApp' = InitializeFirebase
    /\ IF firebaseApp' = "app"
       THEN srvPc' = "validate" /\ srvExit' = srvExit
       ELSE srvPc' = "exited" /\ srvExit' = "1"
    /\ UNCHANGED <<env, firebaseConfigured, appCreated, routes, reqs,
                   mainVars, nodeVars, netVars, msgVars, authVars>>

\* A fault the validation could have: only the API key is required.
ValidateEnv_keyOnly ==
    /\ srvPc = "validate"
    /\ IF env["RESEND_API_KEY"] = ""
       THEN srvPc' = "exited" /\ srvExit' = "1"
            /\ firebaseConfigured' = firebaseConfigured
       ELSE /\ srvPc' = "create"
            /\ srvExit' = srvExit
            /\ firebaseConfigured' = (\A n \in FirebaseEnvVars : env[n] # "")
    /\ UNCHANGED <<env, firebaseApp, appCreated, routes, reqs,
                   mainVars, nodeVars, netVars, msgVars, authVars>>

\* The validation loops of server.js: process.exit(1) at the first missing
\* required variable; firebaseConfigured is false when a Firebase variable
\* is missing.
ValidateEnv ==
    /\ srvPc = "validate"
    /\ IF \E n \in RequiredEnvVars : env[n] = ""
       THEN srvPc' = "exited" /\ srvExit' = "1"
            /\ firebaseConfigured' = firebaseConfigured
       ELSE /\ srvPc' = "create"
            /\ srvExit' = srvExit
            /\ firebaseConfigured' = (\A n \in FirebaseEnvVars : env[n] # "")
    /\ UNCHANGED <<env, firebaseApp, appCreated, routes, reqs,
                   mainVars, nodeVars, netVars, msgVars, authVars>>

\* const app = express(); const resend = new Resend(...)
CreateApp ==
    /\ srvPc = "create"
    /\ appCreated' = TRUE
    /\ srvPc' = "routes"
    /\ UNCHANGED <<env, srvExit, firebaseApp, firebaseConfigured, routes, reqs,
                   mainVars, nodeVars, netVars, msgVars, authVars>>

\* app.use('/auth', authRoutes) when firebaseConfigured (of the router,
\* the routes behind authenticateToken); the three routes of server.js.
RegisterRoutes ==
    /\ srvPc = "routes"
    /\ routes' = BasicRoutes \cup (IF firebaseConfigured THEN AuthRoutes ELSE {})
    /\ srvPc' = "listen"
    /\ UNCHANGED <<env, srvExit, firebaseApp, firebaseConfigured, appCreated,
                   reqs, mainVars, nodeVars, netVars, msgVars, authVars>>

\* app.listen(PORT, ...)
Listen ==
    /\ srvPc = "listen"
    /\ srvPc' = "listening"
    /\ UNCHANGED <<env, srvExit, firebaseApp, firebaseConfigured, appCreated,
                   routes, reqs, mainVars, nodeVars, netVars, msgVars, authVars>>

\* const token = authHeader && authHeader.split(' ')[1]; "" stands for
\* every falsy result (no header, no second part, an empty second part).
Token(header) == IF Len(header) < 2 THEN "" ELSE header[2]

\* verifyIdToken: throws without firebaseApp and for a token the Admin SDK
\* rejects; otherwise the decoded user.
VerifyIdToken(token) ==
    IF firebaseApp = "app" /\ token = "idtoken-alice"
    THEN [ok |-> TRUE, user |-> "alice"]
    ELSE [ok |-> FALSE, user |-> "undefined"]

Respond(req, status, body) ==
    [req EXCEPT !.resp = Append(@, [status |-> status, body |-> body]),
                !.pc = "done"]

\* A request reaches the listening server. A path with no route gets the
\* 404 of Express; "/" and /api/get-tts-token have no middleware.
Arrive(r, route, header, email, report, ecgImages, profile) ==
    /\ srvPc = "listening"
    /\ reqs[r].pc = "none"
    /\ LET req == [NoRequest EXCEPT !.route = route, !.header = header,
                                    !.email = email, !.report = report,
                                    !.ecgImages = ecgImages,
                                    !.profile = profile]
       IN reqs' = [reqs EXCEPT ![r] =
             IF route \notin routes THEN Respond(req, 404, "Cannot " \o route)
             ELSE IF route \in {"/", "/api/get-tts-token"}
             THEN [req EXCEPT !.pc = "handler"]
             ELSE [req EXCEPT !.pc = "middleware"]]
    /\ UNCHANGED <<env, srvPc, srvExit, firebaseApp, firebaseConfigured,
                   appCreated, routes, mainVars, nodeVars, netVars, msgVars, authVars>>

\* app.get('/')
Root(r) ==
    /\ reqs[r].pc = "handler"
    /\ reqs[r].route = "/"
    /\ reqs' = [reqs EXCEPT ![r] =
          Respond([@ EXCEPT !.ran = TRUE], 200, "AI Vitals Backend is running!")]
    /\ UNCHANGED <<env, srvPc, srvExit, firebaseApp, firebaseConfigured,
                   appCreated, routes, mainVars, nodeVars, netVars, msgVars, authVars>>

\* app.post('/api/get-tts-token'): 500 when Firebase is not configured,
\* else the token of google-auth-library, or 500 when getting it throws.
GetTtsToken(r, outcome) ==
    /\ reqs[r].pc = "handler"
    /\ reqs[r].route = "/api/get-tts-token"
    /\ reqs' = [reqs EXCEPT ![r] =
          LET req == [@ EXCEPT !.ran = TRUE]
          IN IF ~firebaseConfigured
             THEN Respond(req, 500, "Firebase credentials not configured")
             ELSE IF outcome = "ok"
             THEN Respond(req, 200, "accessToken")
             ELSE Respond(req, 500, "Failed to get access token")]
    /\ UNCHANGED <<env, srvPc, srvExit, firebaseApp, firebaseConfigured,
                   appCreated, routes, mainVars, nodeVars, netVars, msgVars, authVars>>

\* A fault authenticateToken could have: going on after a failed
\* verification.
authenticateToken_continues(r) ==
    /\ reqs[r].pc = "middleware"
    /\ reqs[r].route \in AuthRoutes
    /\ reqs' = [reqs EXCEPT ![r] =
          LET decoded == VerifyIdToken(Token(@.header))
          IN [@ EXCEPT !.user = decoded.user, !.nextCalls = @ + 1,
                       !.pc = "handler"]]
    /\ UNCHANGED <<env, srvPc, srvExit, firebaseApp, firebaseConfigured,
                   appCreated, routes, mainVars, nodeVars, netVars, msgVars, authVars>>

\* authenticateToken: 401 MISSING_TOKEN without a token, 401 INVALID_TOKEN
\* when verifyIdToken throws, else req.user and next().
authenticateToken(r) ==
    /\ reqs[r].pc = "middleware"
    /\ reqs[r].route \in AuthRoutes
    /\ reqs' = [reqs EXCEPT ![r] =
          LET token == Token(@.header)
              decoded == VerifyIdToken(token)
          IN IF token = "" THEN Respond(@, 401, "MISSING_TOKEN")
             ELSE IF ~decoded.ok THEN Respond(@, 401, "INVALID_TOKEN")
             ELSE [@ EXCEPT !.user = decoded.user, !.nextCalls = @ + 1,
                            !.pc = "handler"]]
    /\ UNCHANGED <<env, srvPc, srvExit, firebaseApp, firebaseConfigured,
                   appCreated, routes, mainVars, nodeVars, netVars, msgVars, authVars>>

\* A fault optionalAuth could have: answering 401 for a token that fails
\* verification.
optionalAuth_rejects(r) ==
    /\ reqs[r].pc = "middleware"
    /\ reqs[r].route = "/send-report"
    /\ reqs' = [reqs EXCEPT ![r] =
          LET token == Token(@.header)
              decoded == VerifyIdToken(token)
          IN IF token # "" /\ ~decoded.ok
             THEN Respond(@, 401, "INVALID_TOKEN")
             ELSE [@ EXCEPT !.user = IF token # "" THEN decoded.user ELSE "null",
                            !.nextCalls = @ + 1, !.pc = "handler"]]
    /\ UNCHANGED <<env, srvPc, srvExit, firebaseApp, firebaseConfigured,
                   appCreated, routes, mainVars, nodeVars, netVars, msgVars, authVars>>

\* optionalAuth: req.user is the decoded user of a token that verifies and
\* null otherwise; next() in either case.
optionalAuth(r) ==
    /\ reqs[r].pc = "middleware"
    /\ reqs[r].route = "/send-report"
    /\ reqs' = [reqs EXCEPT ![r] =
          LET token == Token(@.header)
              decoded == VerifyIdToken(token)
          IN [@ EXCEPT !.user = IF token # "" /\ decoded.ok
                                THEN decoded.user ELSE "null",
                       !.nextCalls = @ + 1, !.pc = "handler"]]
    /\ UNCHANGED <<env, srvPc, srvExit, firebaseApp, firebaseConfigured,
                   appCreated, routes, mainVars, nodeVars, netVars, msgVars, authVars>>

\* The handlers behind authenticateToken. /status and /logout answer 200;
\* /user and /refresh answer 200, or 500 when the Admin SDK call throws;
\* /update-profile answers 400 for an incomplete profile, else 200 or 500.
ProtectedHandler(r, outcome) ==
    /\ reqs[r].pc = "handler"
    /\ reqs[r].route \in AuthRoutes
    /\ reqs' = [reqs EXCEPT ![r] =
          LET req == [@ EXCEPT !.ran = TRUE]
          IN IF req.route \in {"/auth/status", "/auth/logout"}
             THEN Respond(req, 200, "success")
             ELSE IF req.route = "/auth/update-profile" /\ ~req.profile
             THEN Respond(req, 400, "Height, weight, age, and gender are required.")
             ELSE IF outcome = "ok" THEN Respond(req, 200, "success")
             ELSE Respond(req, 500, "failed")]
    /\ UNCHANGED <<env, srvPc, srvExit, firebaseApp, firebaseConfigured,
                   appCreated, routes, mainVars, nodeVars, netVars, msgVars, authVars>>

\* analysisToHtml and the ECG image loop: a TypeError for a report without
\* detailed_analysis, and for an image that has no split method.
Renders(req) == req.report = "analysis" /\ req.ecgImages # "numbers"

\* A fault the handler could have: the email sent to the address of the
\* request.
Email_toRequester(req) ==
    [from |-> env["FROM_EMAIL"], to |-> <<req.email>>,
     subject |-> req.email, html |-> req.email,
     attachments |-> req.ecgImages = "dataUrls"]

\* The argument of resend.emails.send: to is [process.env.TO_EMAIL]; the
\* address of the request is in the subject and in the report text.
Email(req) ==
    [from |-> env["FROM_EMAIL"], to |-> <<env["TO_EMAIL"]>>,
     subject |-> req.email, html |-> req.email,
     attachments |-> req.ecgImages = "dataUrls"]

\* A fault the validation could have: only the email is required.
MissingFields_emailOnly(req) == req.email = ""

\* if (!intendedRecipient || !report)
MissingFields(req) == req.email = "" \/ req.report = ""

\* A fault the handler could have: the 200 written before the email
\* service has answered.
SendReport_answersEarly(r) ==
    /\ reqs[r].pc = "handler"
    /\ reqs[r].route = "/send-report"
    /\ reqs' = [reqs EXCEPT ![r] =
          LET req == [@ EXCEPT !.ran = TRUE]
          IN IF MissingFields(req)
             THEN Respond(req, 400, "Email and report are required.")
             ELSE IF ~Renders(req)
             THEN Respond(req, 500, "Failed to send email.")
             ELSE [Respond(req, 200, "Email sent successfully!")
                      EXCEPT !.emails = Append(@, Email(req)),
                             !.pc = "sending"]]
    /\ UNCHANGED <<env, srvPc, srvExit, firebaseApp, firebaseConfigured,
                   appCreated, routes, mainVars, nodeVars, netVars, msgVars, authVars>>

\* app.post('/send-report') up to the await: 400 for a body without email
\* or report; 500 when rendering throws; otherwise the call of
\* resend.emails.send.
SendReport(r) ==
    /\ reqs[r].pc = "handler"
    /\ reqs[r].route = "/send-report"
    /\ reqs' = [reqs EXCEPT ![r] =
          LET req == [@ EXCEPT !.ran = TRUE]
          IN IF MissingFields(req)
             THEN Respond(req, 400, "Email and report are required.")
             ELSE IF ~Renders(req)
             THEN Respond(req, 500, "Failed to send email.")
             ELSE [req EXCEPT !.emails = Append(@, Email(req)),
                              !.pc = "sending"]]
    /\ UNCHANGED <<env, srvPc, srvExit, firebaseApp, firebaseConfigured,
                   appCreated, routes, mainVars, nodeVars, netVars, msgVars, authVars>>

\* resend.emails.send settles: {data} gives 200; {error} is thrown and a
\* rejection is caught, and either gives 500.
SendSettles(r, outcome) ==
    /\ reqs[r].pc = "sending"
    /\ reqs' = [reqs EXCEPT ![r] =
          IF outcome = "data"
          THEN Respond([@ EXCEPT !.sendResult = outcome], 200, "Email sent successfully!")
          ELSE Respond([@ EXCEPT !.sendResult = outcome], 500, "Failed to send email.")]
    /\ UNCHANGED <<env, srvPc, srvExit, firebaseApp, firebaseConfigured,
                   appCreated, routes, mainVars, nodeVars, netVars, msgVars, authVars>>

WebNext ==
    \/ LoadModules
    \/ ValidateEnv
    \/ CreateApp
    \/ RegisterRoutes
    \/ Listen
    \/ \E r \in Reqs, header \in Headers :
          \/ \E route \in {"/", "/api/get-tts-token"} :
                Arrive(r, route, <<>>, "", "", "", FALSE)
          \/ \E route \in {"/auth/user", "/auth/refresh", "/auth/status",
                           "/auth/logout"} :
                Arrive(r, route, header, "", "", "", FALSE)
          \/ \E profile \in BOOLEAN :
                Arrive(r, "/auth/update-profile", header, "", "", "", profile)
          \/ \E email \in BodyEmails, report \in BodyReports,
                ecgImages \in BodyEcgImages :
                Arrive(r, "/send-report", header, email, report, ecgImages, FALSE)
    \/ \E r \in Reqs : Root(r)
    \/ \E r \in Reqs, outcome \in {"ok", "throws"} : GetTtsToken(r, outcome)
    \/ \E r \in Reqs : authenticateToken(r)
    \/ \E r \in Reqs : optionalAuth(r)
    \/ \E r \in Reqs, outcome \in {"ok", "throws"} : ProtectedHandler(r, outcome)
    \/ \E r \in Reqs : SendReport(r)
    \/ \E r \in Reqs, outcome \in {"data", "error", "rejected"} :
          SendSettles(r, outcome)

WebSpec == WebInit /\ [][WebNext]_vars

\* ------------------------------------------------------- the front end
Callbacks == 1..MaxCallbacks

\* The routes of App.tsx: "/" is the authentication page, the others are
\* wrapped in ProtectedRoute.
ProtectedPaths == {"/monitoring", "/dashboard", "/report"}

IdleCallback == [pc |-> "idle", firebaseUser |-> "null"]

\* The application after the first render of AuthProvider and its effect:
\* the listener is subscribed and the SDK will report its current user,
\* one restored from an earlier session or none; the browser is at the
\* authentication page or was opened at a protected path.
AppInit ==
    /\ mainPc = "lib"
    /\ exitCode = "running"
    /\ out = <<>>
    /\ nodeExists = FALSE
    /\ NewNode
    /\ NetInit
    /\ portExt = FALSE
    /\ MsgInit
    /\ NoServer
    /\ user = "null"
    /\ loading = TRUE
    /\ initialized = FALSE
    /\ fbUser \in {"null", "alice"}
    /\ events = <<fbUser>>
    /\ cbs = [c \in Callbacks |-> IdleCallback]
    /\ rdPc = "pending"
    /\ siPc = "idle"
    /\ soPc = "idle"
    /\ location \in {"/", "/dashboard"}
    /\ screen = IF location \in ProtectedPaths THEN "loading" ELSE "none"
    /\ activeRef = (location \in ProtectedPaths)
    /\ signedOut = FALSE

\* The context value of AuthProvider for the states u, l, i.
AuthValue(u, l, i) ==
    [user |-> u, loading |-> l \/ ~i, isAuthenticated |-> u # "null"]

\* ProtectedRoute: what it returns, and whether it calls navigate('/').
ProtectedRoute(isAuthenticated, isLoading) ==
    IF isLoading THEN [screen |-> "loading", navigate |-> FALSE]
    ELSE IF ~isAuthenticated THEN [screen |-> "null", navigate |-> TRUE]
    ELSE [screen |-> "children", navigate |-> FALSE]

\* React renders the mounted ProtectedRoute again when the provider's
\* state has changed to u, l, i. navigate('/') of a mounted component
\* changes the location, which unmounts the ProtectedRoute.
Rerender(u, l, i) ==
    IF location \notin ProtectedPaths \/ <<u, l, i>> = <<user, loading, initialized>>
    THEN UNCHANGED <<location, screen, activeRef>>
    ELSE LET value == AuthValue(u, l, i)
             rendered == ProtectedRoute(value.isAuthenticated, value.loading)
         IN IF rendered.navigate /\ activeRef
            THEN location' = "/" /\ screen' = "none" /\ activeRef' = FALSE
            ELSE /\ location' = location
                 /\ screen' = rendered.screen
                 /\ activeRef' = TRUE

\* setUser(u); setLoading(l); setInitialized(i) of one handler, and the
\* render that follows.
SetState(u, l, i) ==
    /\ user' = u
    /\ loading' = l
    /\ initialized' = i
    /\ Rerender(u, l, i)

\* The calls and callbacks the bound leaves room for.
Budget ==
    Len(events) + Cardinality({c \in Callbacks : cbs[c].pc # "idle"})
       < MaxCallbacks

\* checkRedirectResult: getGoogleRedirectResult resolves with a sign-in
\* that completed by redirect, with nothing, or rejects.
CheckRedirectResult(result) ==
    /\ rdPc = "pending"
    /\ rdPc' = "done"
    /\ IF result = "user"
       THEN SetState("alice", loading, initialized) /\ signedOut' = FALSE
       ELSE UNCHANGED <<user, loading, initialized, location, screen,
                        activeRef, signedOut>>
    /\ UNCHANGED <<fbUser, events, cbs, siPc, soPc,
                   mainVars, nodeVars, netVars, msgVars, webVars>>

\* The SDK calls the listener with the user of its next notification. For
\* no user: setUser(null), setLoading(false), setInitialized(true). For a
\* user the callback awaits firebaseUser.getIdToken().
CallbackStart(c) ==
    /\ events # <<>>
    /\ cbs[c].pc = "idle"
    /\ \A d \in Callbacks : d < c => cbs[d].pc # "idle"
    /\ events' = Tail(events)
    /\ IF Head(events) = "null"
       THEN /\ cbs' = [cbs EXCEPT ![c] = [pc |-> "done", firebaseUser |-> "null"]]
            /\ SetState("null", FALSE, TRUE)
       ELSE /\ cbs' = [cbs EXCEPT ![c] =
                         [pc |-> "token", firebaseUser |-> Head(events)]]
            /\ UNCHANGED <<user, loading, initialized, location, screen,
                           activeRef>>
    /\ UNCHANGED <<fbUser, rdPc, siPc, soPc, signedOut,
                   mainVars, nodeVars, netVars, msgVars, webVars>>

\* getIdToken settles: with a token the callback goes on to fetch
\* /auth/user; a rejection is caught and the basic user is set.
CallbackToken(c, ok) ==
    /\ cbs[c].pc = "token"
    /\ IF ok
       THEN /\ cbs' = [cbs EXCEPT ![c].pc = "fetch"]
            /\ UNCHANGED <<user, loading, initialized, location, screen,
                           activeRef>>
       ELSE /\ cbs' = [cbs EXCEPT ![c].pc = "done"]
            /\ SetState(cbs[c].firebaseUser, FALSE, TRUE)
    /\ UNCHANGED <<fbUser, events, rdPc, siPc, soPc, signedOut,
                   mainVars, nodeVars, netVars, msgVars, webVars>>

\* The fetch of /auth/user settles: the profile of the backend is set, or
\* for a failed fetch, a response that is not ok or a body that is not
\* JSON, the basic user; then setLoading(false), setInitialized(true).
CallbackFetch(c, ok) ==
    /\ cbs[c].pc = "fetch"
    /\ cbs' = [cbs EXCEPT ![c].pc = "done"]
    /\ SetState(IF ok THEN "alice-profile" ELSE cbs[c].firebaseUser,
                FALSE, TRUE)
    /\ UNCHANGED <<fbUser, events, rdPc, siPc, soPc, signedOut,
                   mainVars, nodeVars, netVars, msgVars, webVars>>

\* signIn, signInWithEmail, signUp up to their await: setLoading(true).
SignInCall ==
    /\ siPc = "idle" /\ soPc = "idle"
    /\ location = "/"
    /\ Budget
    /\ siPc' = "awaiting"
    /\ SetState(user, TRUE, initialized)
    /\ UNCHANGED <<fbUser, events, cbs, rdPc, soPc, signedOut,
                   mainVars, nodeVars, netVars, msgVars, webVars>>

\* The sign-in settles: on success the SDK has a user and notifies the
\* listener; finally setLoading(false).
SignInSettles(ok) ==
    /\ siPc = "awaiting"
    /\ siPc' = "idle"
    /\ IF ok
       THEN /\ fbUser' = "alice"
            /\ events' = Append(events, "alice")
            /\ signedOut' = FALSE
       ELSE UNCHANGED <<fbUser, events, signedOut>>
    /\ SetState(user, FALSE, initialized)
    /\ UNCHANGED <<cbs, rdPc, soPc,
                   mainVars, nodeVars, netVars, msgVars, webVars>>

\* SharedLayout's handleSignOut calls signOut: setLoading(true), then the
\* await of signOutUser().
SignOutCall ==
    /\ soPc = "idle" /\ siPc = "idle"
    /\ location \in ProtectedPaths
    /\ Budget
    /\ soPc' = "awaiting"
    /\ SetState(user, TRUE, initialized)
    /\ UNCHANGED <<fbUser, events, cbs, rdPc, siPc, signedOut,
                   mainVars, nodeVars, netVars, msgVars, webVars>>

\* signOutUser settles. On success the SDK has no user and notifies the
\* listener if it had one; setUser(null), setLoading(false), and
\* handleSignOut calls navigate('/'). On a failure only setLoading(false).
SignOutSettles(ok) ==
    /\ soPc = "awaiting"
    /\ soPc' = "idle"
    /\ IF ok
       THEN /\ fbUser' = "null"
            /\ events' = IF fbUser = "null" THEN events
                         ELSE Append(events, "null")
            /\ signedOut' = TRUE
            /\ user' = "null"
            /\ loading' = FALSE
            /\ initialized' = initialized
            /\ location' = "/"
            /\ screen' = "none"
            /\ activeRef' = FALSE
       ELSE /\ UNCHANGED <<fbUser, events, signedOut>>
            /\ SetState(user, FALSE, initialized)
    /\ UNCHANGED <<cbs, rdPc, siPc,
                   mainVars, nodeVars, netVars, msgVars, webVars>>

\* The router goes to a protected path (a link, navigate, the back
\* button): its ProtectedRoute is mounted and renders for the first time.
\* useNavigate ignores a navigate call made before the component has
\* mounted (activeRef is set in a layout effect).
GoProtected(path) ==
    /\ location = "/"
    /\ location' = path
    /\ screen' = ProtectedRoute(AuthValue(user, loading, initialized).isAuthenticated,
                                AuthValue(user, loading, initialized).loading).screen
    /\ activeRef' = TRUE
    /\ UNCHANGED <<user, loading, initialized, fbUser, events, cbs, rdPc,
                   siPc, soPc, signedOut,
                   mainVars, nodeVars, netVars, msgVars, webVars>>

\* The router goes back to the authentication page.
GoHome ==
    /\ location \in ProtectedPaths
    /\ location' = "/"
    /\ screen' = "none"
    /\ activeRef' = FALSE
    /\ UNCHANGED <<user, loading, initialized, fbUser, events, cbs, rdPc,
                   siPc, soPc, signedOut,
                   mainVars, nodeVars, netVars, msgVars, webVars>>

AppNext ==
    \/ \E result \in {"user", "none", "rejected"} : CheckRedirectResult(result)
    \/ \E c \in Callbacks : CallbackStart(c)
    \/ \E c \in Callbacks, ok \in BOOLEAN : CallbackToken(c, ok)
    \/ \E c \in Callbacks, ok \in BOOLEAN : CallbackFetch(c, ok)
    \/ SignInCall
    \/ \E ok \in BOOLEAN : SignInSettles(ok)
    \/ SignOutCall
    \/ \E ok \in BOOLEAN : SignOutSettles(ok)
    \/ \E path \in ProtectedPaths : GoProtected(path)
    \/ GoHome

AppSpec == AppInit /\ [][AppNext]_vars

\* ============================================================== claims
Launched == {g \in Goroutines : lPc[g] # "idle"}
BindFailed == \E g \in Goroutines : lErr[g] = "BindError"
Registered(c) == \E id \in DOMAIN peers : peers[id].conn = c

\* C1: a second call of Node.Stop (and so of the transport's Close) is a
\* no-op: it returns no error.
C1_SecondStopReturnsNoError ==
    stopCount >= 2 => stopErr = "nil"

\* C2: once an Accept call has yielded Closed, because Stop closed the
\* listener, Listen has terminated: a goroutine that had entered the accept
\* loop has returned from it.
C2_ListenEndsAfterClose ==
    lastAccept = "Closed" => \E g \in stored : lPc[g] = "returned"

\* C3: after Node.Stop has returned to func main, the transport holds no
\* open listening endpoint, whatever the listening goroutine had done
\* before Stop ran.
C3_NoListenerAfterStop ==
    mainPc = "stopped" => \A L \in Goroutines : lnState[L] # "open"

\* C4: a call of Node.Start on a node already started fails with
\* AlreadyStarted and launches no second accept loop.
C4_SecondStartFails ==
    startCount >= 2 => (startErr = "AlreadyStarted" /\ Cardinality(Launched) <= 1)

\* C5: if the listening address cannot be bound, Start reports the bind
\* error to func main, which does not go on to report the node as started
\* and wait for peers, and the process ends with status 1.
C5_BindErrorIsFatal ==
    BindFailed =>
        /\ startErr = "BindError"
        /\ mainPc \notin {"print", "wait", "stop", "stopped"}
        /\ (mainPc = "exited" => exitCode = "1")

\* C6: no step takes a listening goroutine out of its accept loop, a failed
\* Accept included, and a connection is closed only by its own handler, in
\* a step that changes no other connection.
C6_FailuresStayLocal ==
    [][ /\ \A g \in Goroutines : lPc[g] = "loop" => lPc'[g] = "loop"
        /\ \A c \in Conns :
              (connState[c] = "open" /\ connState'[c] # "open") =>
                  /\ hPc[c] = "run"
                  /\ hPc'[c] = "done"
                  /\ \A d \in Conns \ {c} : connState'[d] = connState[d] ]_vars

\* C6 witness: an Accept has failed on an open listener and the goroutine is
\* still in the loop; one connection has failed and been closed, and a later
\* one has been accepted and is open.
C6_Witness ==
    /\ lastAccept = "Error"
    /\ \E g \in stored : lPc[g] = "loop"
    /\ \E c1, c2 \in Conns :
          /\ c1 < c2
          /\ connFailed[c1]
          /\ connState[c1] = "closed"
          /\ connState[c2] = "open"
          /\ ~connFailed[c2]

\* C7: no entry of the peers map refers to a closed connection.
C7_NoPeerOnClosedConn ==
    \A id \in DOMAIN peers : connState[peers[id].conn] # "closed"

\* C7 witness: a connection has been accepted, handled and closed, and the
\* peers map has no entry for it.
C7_Witness ==
    \E c \in Conns : connState[c] = "closed" /\ hPc[c] = "done" /\ ~Registered(c)

\* C8: an accepted connection has a Peer registered in the peers map, which
\* stays there as long as the connection is open: at the step that ends an
\* open connection, the connection is registered.
C8_AcceptedConnIsRegistered ==
    [][ \A c \in Conns :
           (connState[c] = "open" /\ connState'[c] # "open") => Registered(c) ]_vars

\* C9: when a connection c2 has been handed to the node under a peer id that
\* an earlier connection c1 was handed in under, the peers map holds that
\* id with the peer wired to c2, and c1 is closed.
C9_LastWriterWins ==
    [][ \A c1, c2 \in Conns :
           ( /\ c1 # c2
             /\ connRemote[c1] = connRemote[c2]
             /\ hPc[c1] = "done"
             /\ hPc[c2] = "run"
             /\ hPc'[c2] = "done" ) =>
               /\ connRemote[c2] \in DOMAIN peers'
               /\ peers'[connRemote[c2]].conn = c2
               /\ connState'[c1] = "closed" ]_vars

\* C10: two messages created by the same node have different ids.
C10_MessageIdsUnique ==
    \A i, j \in DOMAIN msgs :
        (i # j /\ msgs[i].From = msgs[j].From) => msgs[i].ID # msgs[j].ID

\* C11: decoding the encoding of a valid message gives back its id, type,
\* sender, recipient, payload and the instant of its timestamp. A message is
\* valid when its sender and recipient are text (valid UTF-8).
ValidMessage(m) == m.From # InvalidUtf8 /\ m.To # InvalidUtf8

SameMessage(a, b) ==
    /\ a.ID = b.ID
    /\ a.Type = b.Type
    /\ a.From = b.From
    /\ a.To = b.To
    /\ a.Timestamp.wall = b.Timestamp.wall
    /\ a.Payload = b.Payload

C12_NoOversizedMessage ==
    /\ \A i \in DOMAIN msgs : Len(msgs[i].Payload) <= MaxPayloadSize
    /\ lastJSON.of # 0 => Len(Decode(lastJSON.doc).Payload) <= MaxPayloadSize

\* C13: main creates the node, starts it, prints the node id, waits for a
\* signal and then calls Stop once, in that order. Stop is called at most
\* once, and only after Start returned nil and the signal was received; a
\* process that ended with status 1 never waited for a signal and never
\* called Stop, and one that returned from main called Stop exactly once.
Printed(line) == \E i \in DOMAIN out : out[i] = line

PrintedBefore(a, b) ==
    \A j \in DOMAIN out : out[j] = b => \E i \in 1..(j - 1) : out[i] = a

C13_OrderedLifecycle ==
    /\ stopCount <= 1
    /\ startCount <= 1
    /\ startCount = 1 => nodeExists
    /\ Printed("Node started with ID") => (startCount = 1 /\ startErr = "nil")
    /\ PrintedBefore("Starting mesh-messenger node...", "Node started with ID")
    /\ PrintedBefore("Node started with ID", "Waiting for peers...")
    /\ PrintedBefore("Waiting for peers...", "Shutting down node...")
    /\ PrintedBefore("Shutting down node...", "Node stopped.")
    /\ stopCount = 1 =>
          /\ startCount = 1 /\ startErr = "nil"
          /\ Printed("Shutting down node...")
    /\ Printed("Node stopped.") => stopCount = 1
    /\ exitCode = "0" => (stopCount = 1 /\ Printed("Node stopped."))
    /\ exitCode = "1" =>
          /\ stopCount = 0
          /\ ~Printed("Waiting for peers...")
          /\ ~nodeExists \/ startErr # "nil"

\* C13 witness: the process ran to the end of main after one Stop.
C13_Witness ==
    /\ mainPc = "exited"
    /\ exitCode = "0"
    /\ stopCount = 1
    /\ Printed("Shutting down node...")

\* Helpers of the claims about requests.
Answered(r, status) == \E i \in DOMAIN reqs[r].resp : reqs[r].resp[i].status = status

PastMiddleware(r) == reqs[r].pc \in {"handler", "sending", "done"}

\* C14: a request through authenticateToken is either answered 401
\* (MISSING_TOKEN without a token, INVALID_TOKEN when verifyIdToken rejects)
\* with no call of next, or has req.user set from the verified token and
\* next called once; the handlers behind it run only for a verified token.
C14_AuthenticateTokenGates ==
    \A r \in Reqs :
       (reqs[r].route \in AuthRoutes \cap routes /\ PastMiddleware(r)) =>
          LET token == Token(reqs[r].header)
              decoded == VerifyIdToken(token)
          IN /\ \/ /\ token = ""
                   /\ reqs[r].resp = <<[status |-> 401, body |-> "MISSING_TOKEN"]>>
                   /\ reqs[r].nextCalls = 0
                \/ /\ token # "" /\ ~decoded.ok
                   /\ reqs[r].resp = <<[status |-> 401, body |-> "INVALID_TOKEN"]>>
                   /\ reqs[r].nextCalls = 0
                \/ /\ decoded.ok
                   /\ reqs[r].user = decoded.user
                   /\ reqs[r].nextCalls = 1
                   /\ ~Answered(r, 401)
             /\ reqs[r].ran => (decoded.ok /\ reqs[r].user = decoded.user)

\* C14 witness: the handler of /auth/update-profile has run for alice's
\* token.
C14_Witness ==
    \E r \in Reqs :
       /\ reqs[r].route = "/auth/update-profile"
       /\ reqs[r].ran
       /\ reqs[r].user = "alice"
       /\ reqs[r].nextCalls = 1

\* C15: every email of /send-report has TO_EMAIL as its only recipient,
\* and carries the address of the request in its subject and text only.
C15_OnlyAdminRecipient ==
    \A r \in Reqs : \A i \in DOMAIN reqs[r].emails :
       /\ reqs[r].emails[i].to = <<env["TO_EMAIL"]>>
       /\ env["TO_EMAIL"] # ""
       /\ reqs[r].emails[i].subject = reqs[r].email
       /\ reqs[r].emails[i].html = reqs[r].email

\* C15 witness: an authenticated requester asked for another address and
\* an email was sent.
C15_Witness ==
    \E r \in Reqs :
       /\ reqs[r].emails # <<>>
       /\ reqs[r].email # env["TO_EMAIL"]
       /\ reqs[r].user = "alice"

\* C16: a /send-report request without email or without report is
\* answered 400 and no email is sent for it.
C16_MissingFieldsRejected ==
    \A r \in Reqs :
       (/\ reqs[r].route = "/send-report"
        /\ reqs[r].ran
        /\ (reqs[r].email = "" \/ reqs[r].report = "")) =>
          /\ reqs[r].resp =
                <<[status |-> 400, body |-> "Email and report are required."]>>
          /\ reqs[r].emails = <<>>
          /\ reqs[r].pc = "done"

\* C16 witness: a request with an email and no report was handled.
C16_Witness ==
    \E r \in Reqs :
       /\ reqs[r].route = "/send-report"
       /\ reqs[r].ran
       /\ reqs[r].email # ""
       /\ reqs[r].report = ""

\* C17: a /send-report request with email and report has no response
\* while the email service is awaited and exactly one when the handler is
\* done: 200 only after the service returned data, 500 after it returned
\* an error or rejected, and 500 with no email when rendering threw.
C17_OneResponse ==
    \A r \in Reqs :
       (/\ reqs[r].route = "/send-report"
        /\ reqs[r].ran
        /\ reqs[r].email # "" /\ reqs[r].report # "") =>
          /\ reqs[r].pc \in {"sending", "done"}
          /\ reqs[r].pc = "sending" => reqs[r].resp = <<>>
          /\ reqs[r].pc = "done" => Len(reqs[r].resp) = 1
          /\ Answered(r, 200) =>
                (reqs[r].sendResult = "data" /\ Len(reqs[r].emails) = 1)
          /\ reqs[r].sendResult \in {"error", "rejected"} =>
                reqs[r].resp = <<[status |-> 500, body |-> "Failed to send email."]>>
          /\ ~Renders(reqs[r]) =>
                /\ reqs[r].resp = <<[status |-> 500, body |-> "Failed to send email."]>>
                /\ reqs[r].emails = <<>>
          /\ \A i \in DOMAIN reqs[r].resp : reqs[r].resp[i].status \in {200, 500}

\* C17 witness: the email service reported an error and the request was
\* answered 500.
C17_Witness ==
    \E r \in Reqs :
       /\ reqs[r].route = "/send-report"
       /\ reqs[r].sendResult = "error"
       /\ reqs[r].resp = <<[status |-> 500, body |-> "Failed to send email."]>>

\* C18: optionalAuth writes no response and calls next once; req.user is
\* the decoded user for a token that verifies and null otherwise.
C18_OptionalAuthContinues ==
    \A r \in Reqs :
       (reqs[r].route = "/send-report" /\ reqs[r].route \in routes) =>
          /\ reqs[r].pc \in {"none", "middleware"} =>
                (reqs[r].resp = <<>> /\ reqs[r].nextCalls = 0)
          /\ PastMiddleware(r) =>
                LET token == Token(reqs[r].header)
                    decoded == VerifyIdToken(token)
                IN /\ reqs[r].nextCalls = 1
                   /\ reqs[r].user =
                         IF token # "" /\ decoded.ok THEN decoded.user ELSE "null"
                   /\ reqs[r].resp # <<>> => reqs[r].ran
                   /\ ~Answered(r, 401)
                   /\ reqs[r].pc = "handler" => reqs[r].resp = <<>>

\* C18 witness: a request with a token that fails verification went on to
\* the handler as an anonymous request.
C18_Witness ==
    \E r \in Reqs :
       /\ reqs[r].route = "/send-report"
       /\ Token(reqs[r].header) = "idtoken-expired"
       /\ reqs[r].ran
       /\ reqs[r].user = "null"

\* C19: with the three required variables set and a Firebase variable
\* missing, the process does not exit during start-up; once it listens the
\* /auth routes are not mounted, and /api/get-tts-token answers 500
\* 'Firebase credentials not configured'.
C19_StartsWithoutFirebase ==
    (/\ \A n \in RequiredEnvVars : env[n] # ""
     /\ \E n \in FirebaseEnvVars : env[n] = "") =>
       /\ srvExit = "running"
       /\ srvPc = "listening" => routes = BasicRoutes
       /\ \A r \in Reqs :
             (reqs[r].route = "/api/get-tts-token" /\ reqs[r].pc = "done") =>
                reqs[r].resp = <<[status |-> 500,
                                  body |-> "Firebase credentials not configured"]>>

\* C20: with a required variable unset the process never creates the app,
\* registers a route or listens, and when it has ended its exit code is 1.
C20_MissingRequiredVarExits ==
    (\E n \in RequiredEnvVars : env[n] = "") =>
       /\ srvPc \in {"load", "validate", "exited"}
       /\ ~appCreated
       /\ routes = {}
       /\ srvPc = "exited" => srvExit = "1"
       /\ \A r \in Reqs : reqs[r].pc = "none"

\* C20 witness: Firebase is configured, a required variable is unset, and
\* the validation has ended the process.
C20_Witness ==
    /\ \A n \in FirebaseEnvVars : env[n] # ""
    /\ \E n \in RequiredEnvVars : env[n] = ""
    /\ srvPc = "exited"
    /\ srvExit = "1"

\* C21: at a protected path the ProtectedRoute shows its children only
\* when the exposed loading flag is false and a user is present, shows the
\* loading screen while the flag is true, and never stays at the path
\* unauthenticated and not loading: it has navigated to "/".
C21_ProtectedRouteGuards ==
    location \in ProtectedPaths =>
       LET value == AuthValue(user, loading, initialized)
       IN /\ screen = "children" => (~value.loading /\ value.isAuthenticated)
          /\ value.loading => screen = "loading"
          /\ ~(~value.loading /\ ~value.isAuthenticated)

\* C22: from a signOut that resolved until a later sign-in, user is null
\* and isAuthenticated is false.
C22_SignedOutStaysSignedOut ==
    signedOut =>
       /\ user = "null"
       /\ ~AuthValue(user, loading, initialized).isAuthenticated

====
